---- MODULE Spec2Model ----
(***************************************************************************)
(* Model of src/main.py: the OAuth2 password flow of the Library API.      *)
(*                                                                         *)
(* State: the two module-level stores (users_db, books_db), the wall clock *)
(* read by datetime.utcnow(), the tokens handed out to clients, and the    *)
(* request threads of the server's thread pool.                            *)
(*                                                                         *)
(* Spec serves the calls of the token functions one at a time; ConcSpec    *)
(* interleaves the handlers of POST /token, GET /users/me and POST /books/ *)
(* over the request threads.                                               *)
(*                                                                         *)
(* Time is counted in ticks of 1/TicksPerSec second, so that the           *)
(* conversion of the datetime "exp" claim to whole seconds done by         *)
(* jwt.encode, and the whole-second clock read by jwt.decode, are          *)
(* truncations and not identities.                                         *)
(***************************************************************************)
EXTENDS Integers, Sequences, FiniteSets, Bags, TLC

VARIABLES
    clock,      \* datetime.utcnow(), in ticks
    users_db,   \* module global users_db: username -> entry
    books_db,   \* module global books_db: a list of book records
    issued,     \* tokens returned to clients so far (held by the clients)
    last,       \* the call that completed at the current instant, its inputs and result
    threads     \* the handlers in flight on the request threads, with their local variables

vars == <<clock, users_db, books_db, issued, last, threads>>

---------------------------------------------------------------------------
(* Bounds of the model *)

TicksPerSec == 2
MaxDriftTicks == 2
MaxTokens == 2
MaxBooks == 3
NumThreads == 2

---------------------------------------------------------------------------
(* Configuration, lines 44-59 *)

SECRET_KEY == "supersecretkey"

ALGORITHM == "HS256"

\* timedelta(minutes=15), the default of create_access_token, in seconds
DefaultExpireSeconds == 15 * 60

DefaultExpireTicks == DefaultExpireSeconds * TicksPerSec

\* Python's None, as the value of payload.get("sub") for a payload without "sub"
None == "None"

\* The keys and passwords of users_db are those of the source. The disabled
\* flag is False throughout in the source; it is configuration the code never
\* branches on, and alice's is left open so that a disabled entry exists.
UsersDbConfigs ==
    { [u \in {"alice", "bujjy23"} |->
          [username |-> u,
           password |-> IF u = "alice" THEN "wonderland" ELSE "bujjy2003",
           disabled |-> (u = "alice" /\ f)]] : f \in BOOLEAN }

InitialBooks ==
    << [title |-> "The Hobbit", author |-> "Tolkien", year |-> 1937],
       [title |-> "1984", author |-> "Orwell", year |-> 1949] >>

---------------------------------------------------------------------------
(* Inputs of the requests *)

\* form_data of POST /token, <<username, password>>: the two entries, a wrong
\* password for a known username, an unknown username
LoginForms ==
    { <<"alice", "wonderland">>, <<"bujjy23", "bujjy2003">>,
      <<"alice", "bujjy2003">>, <<"mallory", "wonderland">> }

\* arguments of create_access_token, <<data, expires_delta>>. data is
\* {"sub": s}, or a dict without "sub" (sub |-> None). expires_delta: <<>> is
\* None, <<d>> is a timedelta of d ticks (zero, minus one second, one second).
IssueCalls ==
    { <<[sub |-> "alice"], d>> :
          d \in { <<>>, <<0>>, <<-TicksPerSec>>, <<TicksPerSec>> } }
    \cup { <<[sub |-> "mallory"], <<>>>>, <<[sub |-> None], <<>>>> }

NewBooks == { [title |-> "Dune", author |-> "Herbert", year |-> 1965] }

---------------------------------------------------------------------------
(* python-jose: jwt.encode / jwt.decode with an ideal MAC *)

\* HMAC over header and payload: equal exactly for equal key, header and payload
Sign(alg, payload, key) == [key |-> key, alg |-> alg, over |-> payload]

\* calendar.timegm(dt.utctimetuple()): a datetime in whole seconds
timegm(ticks) == ticks \div TicksPerSec

\* jwt.encode(to_encode, SECRET_KEY, algorithm=ALGORITHM): a datetime "exp" is
\* converted to whole seconds, then header.payload.signature is produced
jwt_encode(claims, key, alg) ==
    LET payload == [sub |-> claims.sub, exp |-> timegm(claims.exp)]
    IN  [segments |-> 3, alg |-> alg, payload |-> payload,
         sig |-> Sign(alg, payload, key)]

NoPayload == [sub |-> None, exp |-> 0]

\* jwt.decode comparing exp, in seconds, with the clock reading left in ticks
jwt_decode_ticks(token, key, algorithms, now) ==
    IF token.segments # 3 \/ token.alg \notin algorithms
           \/ token.sig # Sign(token.alg, token.payload, key)
        THEN [raised |-> "JWTError", payload |-> NoPayload]
    ELSE IF token.payload.exp < now
        THEN [raised |-> "ExpiredSignatureError", payload |-> NoPayload]
    ELSE [raised |-> "none", payload |-> token.payload]

\* jwt.decode with the signature left unverified
jwt_decode_unverified(token, key, algorithms, now) ==
    IF token.segments # 3
        THEN [raised |-> "JWTError", payload |-> NoPayload]
    ELSE IF token.payload.exp < timegm(now)
        THEN [raised |-> "ExpiredSignatureError", payload |-> NoPayload]
    ELSE [raised |-> "none", payload |-> token.payload]

\* jwt.decode(token, SECRET_KEY, algorithms=[ALGORITHM]) at clock reading now,
\* as python-jose does it: jws.verify refuses a token that has not three
\* segments, whose alg is not among algorithms, or whose signature does not
\* match (JWSError, re-raised as JWTError); then the exp claim is compared
\* with timegm(utcnow()) and ExpiredSignatureError, a JWTError, is raised
\* when exp < now.
jwt_decode(token, key, algorithms, now) ==
    IF token.segments # 3
        THEN [raised |-> "JWTError", payload |-> NoPayload]
    ELSE IF token.alg \notin algorithms
        THEN [raised |-> "JWTError", payload |-> NoPayload]
    ELSE IF token.sig # Sign(token.alg, token.payload, key)
        THEN [raised |-> "JWTError", payload |-> NoPayload]
    ELSE IF token.payload.exp < timegm(now)
        THEN [raised |-> "ExpiredSignatureError", payload |-> NoPayload]
    ELSE [raised |-> "none", payload |-> token.payload]

---------------------------------------------------------------------------
(* The functions of lines 63-91 *)

\* Python truthiness of expires_delta: None and timedelta(0) are falsy
Truthy(expires_delta) == expires_delta # <<>> /\ expires_delta[1] # 0

create_access_token(data, expires_delta, now) ==
    LET expire == now + (IF Truthy(expires_delta) THEN expires_delta[1]
                                                  ELSE DefaultExpireTicks)
        to_encode == [sub |-> data.sub, exp |-> expire]
    IN  jwt_encode(to_encode, SECRET_KEY, ALGORITHM)

\* the return value False
False == <<>>

User(username, disabled) == [username |-> username, disabled |-> disabled]

\* authenticate_user refusing a disabled entry
authenticate_user_active(db, username, password) ==
    IF username \notin DOMAIN db
        THEN False
    ELSE IF db[username].password # password \/ db[username].disabled
        THEN False
    ELSE << User(username, db[username].disabled) >>

\* authenticate_user without the comparison of the password
authenticate_user_nopassword(db, username, password) ==
    IF username \notin DOMAIN db
        THEN False
    ELSE << User(username, db[username].disabled) >>

\* returns False, or <<user>> for the User built at line 73
authenticate_user(db, username, password) ==
    IF username \notin DOMAIN db
        THEN False
    ELSE IF db[username].password # password
        THEN False
    ELSE << User(username, db[username].disabled) >>

NoUser == User(None, FALSE)

\* lines 78-83 without the lookup of lines 79-80
current_user_of_any(d, db) ==
    IF d.raised # "none"
        THEN [status |-> 401, raised |-> d.raised, user |-> NoUser]
    ELSE [status |-> 200, raised |-> "none", user |-> User(d.payload.sub, FALSE)]

\* lines 78-83, given the outcome d of jwt.decode. raised: what ended the
\* call; every raise leaves as HTTP 401 with no detail
current_user_of(d, db) ==
    IF d.raised # "none"
        THEN [status |-> 401, raised |-> d.raised, user |-> NoUser]
    ELSE IF d.payload.sub \notin DOMAIN db
        THEN [status |-> 401, raised |-> "UnknownSubject", user |-> NoUser]
    ELSE [status |-> 200, raised |-> "none", user |-> User(d.payload.sub, FALSE)]

get_current_user(token, now, db) ==
    current_user_of(jwt_decode(token, SECRET_KEY, {ALGORITHM}, now), db)

\* lines 88-91, given the return value of authenticate_user: the response of
\* POST /token; token is <<>> when none is returned
login_response(user, now) ==
    IF user = False
        THEN [status |-> 401, token |-> <<>>, token_type |-> "none"]
    ELSE [status |-> 200,
          token |-> << create_access_token([sub |-> user[1].username], <<>>, now) >>,
          token_type |-> "bearer"]

\* login answering 404 for a username that is not in users_db
login_distinct(db, username, password, now) ==
    IF username \notin DOMAIN db
        THEN [status |-> 404, token |-> <<>>, token_type |-> "none"]
    ELSE login_response(authenticate_user(db, username, password), now)

login(db, username, password, now) ==
    login_response(authenticate_user(db, username, password), now)

---------------------------------------------------------------------------
(* What a client can present: its tokens, and alterations of them *)

Resign(t, payload, key) ==
    [t EXCEPT !.payload = payload, !.sig = Sign(t.alg, payload, key)]

\* the subject of another user (of the directory), or a later expiry
AlteredPayloads(t) ==
    { [t.payload EXCEPT !.sub = IF t.payload.sub = "alice" THEN "bujjy23" ELSE "alice"],
      [t.payload EXCEPT !.exp = t.payload.exp + DefaultExpireSeconds] }

Tamperings(t, others) ==
    \* payload altered, signature kept
    { [t EXCEPT !.payload = p] : p \in AlteredPayloads(t) }
    \* expiry altered and signed again without the key
    \cup { Resign(t, [t.payload EXCEPT !.exp = t.payload.exp + DefaultExpireSeconds],
                  "guessedkey") }
    \* signature altered: made without the key, or taken from another token
    \cup { [t EXCEPT !.sig = Sign(t.alg, t.payload, "guessedkey")] }
    \cup { [t EXCEPT !.sig = o.sig] : o \in { x \in others : x.sig # t.sig } }
    \* header altered to the unsigned algorithm
    \cup { [t EXCEPT !.alg = "none"] }
    \* a segment cut off
    \cup { [t EXCEPT !.segments = 2] }

Presentable(tokens) ==
    tokens \cup UNION { Tamperings(t, tokens) : t \in tokens }

---------------------------------------------------------------------------
(* Initial state *)

Init ==
    /\ clock = 0
    /\ users_db \in UsersDbConfigs
    /\ books_db = InitialBooks
    /\ issued = {}
    /\ last = [op |-> "none"]
    /\ threads = EmptyBag

CanHold(token) == token \in issued \/ Cardinality(issued) < MaxTokens

---------------------------------------------------------------------------
(* The clock *)

Tick ==
    /\ clock % DefaultExpireTicks < MaxDriftTicks
    /\ clock' = clock + 1
    /\ last' = [op |-> "none"]
    /\ UNCHANGED <<users_db, books_db, issued, threads>>

Jump ==
    /\ clock < DefaultExpireTicks
    /\ clock' = clock + DefaultExpireTicks
    /\ last' = [op |-> "none"]
    /\ UNCHANGED <<users_db, books_db, issued, threads>>

---------------------------------------------------------------------------
(* Calls and requests served one at a time *)

\* a direct call of create_access_token
CreateAccessToken(data, expires_delta) ==
    LET token == create_access_token(data, expires_delta, clock)
    IN  /\ CanHold(token)
        /\ issued' = issued \cup {token}
        /\ last' = [op |-> "issue", data |-> data, expires_delta |-> expires_delta,
                    at |-> clock, token |-> token]
        /\ UNCHANGED <<clock, users_db, books_db, threads>>

\* POST /token
PostToken(username, password) ==
    LET response == login(users_db, username, password, clock)
    IN  /\ \A i \in 1 .. Len(response.token) : CanHold(response.token[i])
        /\ issued' = issued \cup { response.token[i] : i \in 1 .. Len(response.token) }
        /\ last' = [op |-> "login", username |-> username, password |-> password,
                    at |-> clock, response |-> response]
        /\ UNCHANGED <<clock, users_db, books_db, threads>>

\* GET /users/me with Authorization: Bearer token
GetUsersMe(token) ==
    /\ last' = [op |-> "verify", token |-> token, at |-> clock,
                result |-> get_current_user(token, clock, users_db)]
    /\ UNCHANGED <<clock, users_db, books_db, issued, threads>>

Next ==
    \/ Tick
    \/ Jump
    \/ \E call \in IssueCalls : CreateAccessToken(call[1], call[2])
    \/ \E form \in LoginForms : PostToken(form[1], form[2])
    \/ \E token \in Presentable(issued) : GetUsersMe(token)

Spec == Init /\ [][Next]_vars

---------------------------------------------------------------------------
(* Requests served concurrently by the threads of the pool. A handler is   *)
(* split where it reads shared state: users_db and the clock. The threads  *)
(* are interchangeable, so the pool is the bag of the handlers in flight,  *)
(* each with its local variables; the other threads are idle.              *)

\* the directory exactly as lines 49-52 have it
ConcInit == Init /\ \A u \in DOMAIN users_db : ~users_db[u].disabled

ConcForms == { <<"alice", "wonderland">>, <<"mallory", "wonderland">> }

\* a client's tokens, and each with the subject swapped under its signature
ConcPresentable(tokens) ==
    tokens \cup { [t EXCEPT !.payload.sub = "bujjy23"] : t \in tokens }

IdleThread == BagCardinality(threads) < NumThreads

Enter(locals) == threads (+) SetToBag({locals})

Leave(locals) == threads (-) SetToBag({locals})

\* POST /books/: the append of line 120 (the background task only prints)
create_book(book) ==
    /\ Len(books_db) < MaxBooks
    /\ books_db' = Append(books_db, book)
    /\ UNCHANGED <<clock, users_db, issued, last, threads>>

\* line 87 with the password blanked in the shared entry once it was compared
LoginAuthenticateScrub(username, password) ==
    /\ IdleThread
    /\ threads' = Enter([pc |-> "login", username |-> username,
                         password |-> password,
                         user |-> authenticate_user(users_db, username, password)])
    /\ users_db' = [u \in DOMAIN users_db |->
           IF u = username THEN [users_db[u] EXCEPT !.password = None]
                           ELSE users_db[u]]
    /\ UNCHANGED <<clock, books_db, issued, last>>

\* line 87: user = authenticate_user(form_data.username, form_data.password)
LoginAuthenticate(username, password) ==
    /\ IdleThread
    /\ threads' = Enter([pc |-> "login", username |-> username,
                         password |-> password,
                         user |-> authenticate_user(users_db, username, password)])
    /\ UNCHANGED <<clock, users_db, books_db, issued, last>>

\* lines 88-91: the 401, or the token made at the clock reading of this step
LoginRespond(locals) ==
    LET response == login_response(locals.user, clock)
    IN  /\ locals.pc = "login"
        /\ \A i \in 1 .. Len(response.token) : CanHold(response.token[i])
        /\ issued' = issued \cup { response.token[i] : i \in 1 .. Len(response.token) }
        /\ last' = [op |-> "login", username |-> locals.username,
                    password |-> locals.password, at |-> clock,
                    response |-> response]
        /\ threads' = Leave(locals)
        /\ UNCHANGED <<clock, users_db, books_db>>

\* line 77: payload = jwt.decode(token, SECRET_KEY, algorithms=[ALGORITHM])
VerifyDecode(token) ==
    /\ IdleThread
    /\ threads' = Enter([pc |-> "verify", token |-> token, at |-> clock,
                         decoded |-> jwt_decode(token, SECRET_KEY, {ALGORITHM}, clock)])
    /\ UNCHANGED <<clock, users_db, books_db, issued, last>>

\* lines 78-83: the lookup in users_db and the result
VerifyRespond(locals) ==
    /\ locals.pc = "verify"
    /\ last' = [op |-> "verify", token |-> locals.token, at |-> locals.at,
                result |-> current_user_of(locals.decoded, users_db)]
    /\ threads' = Leave(locals)
    /\ UNCHANGED <<clock, users_db, books_db, issued>>

ConcNext ==
    \/ Tick
    \/ Jump
    \/ \E form \in ConcForms : LoginAuthenticate(form[1], form[2])
    \/ \E locals \in BagToSet(threads) : LoginRespond(locals)
    \/ \E token \in ConcPresentable(issued) : VerifyDecode(token)
    \/ \E locals \in BagToSet(threads) : VerifyRespond(locals)
    \/ \E book \in NewBooks : create_book(book)

ConcSpec == ConcInit /\ [][ConcNext]_vars

---------------------------------------------------------------------------
(* Properties *)

\* the first clock reading at which the clock has reached the token's expiry
ExpiryTicks(token) == token.payload.exp * TicksPerSec

\* the clock readings of the model
ClockReadings ==
    { j * DefaultExpireTicks + d : j \in 0 .. 1, d \in 0 .. MaxDriftTicks }

\* the ttl a call asks for: the timedelta given, 15 minutes when it is omitted
RequestedTicks(expires_delta) ==
    IF expires_delta = <<>> THEN DefaultExpireTicks ELSE expires_delta[1]

Unauthorized(result) == result.status = 401 /\ result.user = NoUser

\* C1: round trip. A token made by create_access_token for a Principal p (a
\* username of the directory, as authenticate_user returns it) is accepted by
\* get_current_user at every clock reading before its expiry, and the
\* Principal returned carries the username of p; and every verification of a
\* client's token for a directory username before its expiry returns that
\* username.
C1_RoundTrip ==
    /\ (last.op = "issue" /\ last.data.sub \in DOMAIN users_db) =>
           \A c \in ClockReadings :
               (last.at <= c /\ c < ExpiryTicks(last.token)) =>
                   LET r == get_current_user(last.token, c, users_db)
                   IN  r.status = 200 /\ r.user.username = last.data.sub
    /\ (last.op = "login" /\ last.response.status = 200) =>
           \A c \in ClockReadings :
               (last.at <= c /\ c < ExpiryTicks(last.response.token[1])) =>
                   LET r == get_current_user(last.response.token[1], c, users_db)
                   IN  r.status = 200 /\ r.user.username = last.username
    /\ (/\ last.op = "verify"
        /\ last.token \in issued
        /\ last.token.payload.sub \in DOMAIN users_db
        /\ last.at < ExpiryTicks(last.token)) =>
           /\ last.result.status = 200
           /\ last.result.user.username = last.token.payload.sub

\* a token of alice obtained by login, verified later than issued and in the
\* last half second before its expiry
C1_Witness ==
    /\ last.op = "verify"
    /\ last.token \in issued
    /\ last.token.payload.sub = "alice"
    /\ last.at = ExpiryTicks(last.token) - 1
    /\ last.at >= DefaultExpireTicks
    /\ last.result.status = 200
    /\ last.result.user.username = "alice"

\* C2: expiry. get_current_user fails as expired whenever the decoded expiry
\* of a client's token is not strictly in the future at the clock reading
\* of the verification (so also at exp = now), and a token made with
\* expires_delta = timedelta(0) is expired at the instant it is made.
C2_Expiry ==
    /\ (/\ last.op = "verify"
        /\ last.token \in issued
        /\ last.at >= ExpiryTicks(last.token)) =>
           /\ last.result.status = 401
           /\ last.result.raised = "ExpiredSignatureError"
    /\ (last.op = "issue" /\ last.expires_delta = <<0>>) =>
           get_current_user(last.token, clock, users_db).raised = "ExpiredSignatureError"

\* C3: tamper resistance. A token obtained from a client's token by altering
\* its payload (subject or expiry), its signature, its header or its
\* structure is rejected as invalid: 401, raised by jwt.decode as a JWTError
\* that is not the expiry error, and no user is returned.
C3_TamperRejected ==
    (/\ last.op = "verify"
     /\ \E t \in issued : last.token \in Tamperings(t, issued)) =>
        /\ Unauthorized(last.result)
        /\ last.result.raised = "JWTError"

\* the token tampered with was valid at that instant, and its subject or
\* expiry was altered under the original signature
C3_Witness ==
    /\ last.op = "verify"
    /\ \E t \in issued :
           /\ get_current_user(t, last.at, users_db).status = 200
           /\ last.token.payload # t.payload
           /\ last.token.sig = t.sig
           /\ last.token.payload.sub \in DOMAIN users_db
    /\ last.result.status = 401

\* C4: unknown subject. A correctly signed token presented before its expiry
\* whose subject is no key of users_db (or that has no subject) is refused
\* by the lookup of lines 79-80 with 401, and no user is returned.
C4_UnknownSubject ==
    (/\ last.op = "verify"
     /\ last.token.segments = 3
     /\ last.token.alg = ALGORITHM
     /\ last.token.sig = Sign(ALGORITHM, last.token.payload, SECRET_KEY)
     /\ last.at < ExpiryTicks(last.token)
     /\ last.token.payload.sub \notin DOMAIN users_db) =>
        /\ Unauthorized(last.result)
        /\ last.result.raised = "UnknownSubject"

C4_Witness ==
    /\ last.op = "verify"
    /\ last.token \in issued
    /\ last.token.payload.sub = "mallory"
    /\ last.at < ExpiryTicks(last.token)
    /\ last.result.raised = "UnknownSubject"

\* C5: failed authentication. For a username that is not in users_db, or a
\* password that differs from the stored one, authenticate_user returns
\* False, POST /token answers 401 without a token, and that answer is the
\* one an unknown username gets with the same password.
C5_AuthenticationFailed ==
    (/\ last.op = "login"
     /\ \/ last.username \notin DOMAIN users_db
        \/ users_db[last.username].password # last.password) =>
        /\ authenticate_user(users_db, last.username, last.password) = False
        /\ last.response.status = 401
        /\ last.response.token = <<>>
        /\ last.response = login(users_db, "nobody", last.password, last.at)
        /\ last.response = login(users_db, "alice", "not the password", last.at)

\* a known username with a wrong password
C5_Witness ==
    /\ last.op = "login"
    /\ last.username = "alice"
    /\ last.password = "bujjy2003"
    /\ last.response.status = 401

\* C6: successful authentication. For every entry (u, s, d) of users_db,
\* authenticate_user(u, s) returns the User (u, d), whatever d is, and
\* POST /token answers 200 with a bearer token for u.
C6_Authenticated ==
    (/\ last.op = "login"
     /\ last.username \in DOMAIN users_db
     /\ users_db[last.username].password = last.password) =>
        /\ authenticate_user(users_db, last.username, last.password)
               = << [username |-> last.username,
                     disabled |-> users_db[last.username].disabled] >>
        /\ last.response.status = 200
        /\ last.response.token_type = "bearer"
        /\ Len(last.response.token) = 1
        /\ last.response.token[1].payload.sub = last.username
        /\ last.response.token[1] \in issued

\* a disabled entry logs in and holds a token
C6_Witness ==
    /\ last.op = "login"
    /\ last.username = "alice"
    /\ users_db["alice"].disabled
    /\ last.response.status = 200
    /\ last.response.token[1] \in issued

\* C7: lifecycle. A client's token for a directory username is accepted by
\* every verification before its expiry, and refused by every verification
\* once the clock has reached its expiry.
C7_Lifecycle ==
    (/\ last.op = "verify"
     /\ last.token \in issued
     /\ last.token.payload.sub \in DOMAIN users_db) =>
        /\ last.at < ExpiryTicks(last.token) => last.result.status = 200
        /\ last.at >= ExpiryTicks(last.token) => last.result.status = 401

\* C8: every token returned by POST /token is signed with SECRET_KEY and
\* carries as subject the username of the request, which is a key of
\* users_db whose stored password is the password of the request.
C8_LoginSubject ==
    (last.op = "login" /\ last.response.token # <<>>) =>
        LET token == last.response.token[1]
        IN  /\ token.payload.sub = last.username
            /\ token.payload.sub \in DOMAIN users_db
            /\ users_db[token.payload.sub].password = last.password
            /\ token.sig = Sign(ALGORITHM, token.payload, SECRET_KEY)

C8_Witness ==
    /\ last.op = "login"
    /\ last.username = "bujjy23"
    /\ last.response.token # <<>>
    /\ Cardinality(issued) = 2

\* C9: expiry of an issued token. For every call of create_access_token the
\* expiry written in the token is the clock reading of the call plus the
\* ttl asked for (15 minutes when omitted, as login does), in whole seconds,
\* and it is strictly later than the clock reading of the call.
C9_ExpiryIsIssuancePlusTtl ==
    /\ last.op = "issue" =>
           /\ last.token.payload.exp
                  = timegm(last.at + RequestedTicks(last.expires_delta))
           /\ ExpiryTicks(last.token) > last.at
    /\ (last.op = "login" /\ last.response.token # <<>>) =>
           /\ last.response.token[1].payload.exp
                  = timegm(last.at + DefaultExpireTicks)
           /\ ExpiryTicks(last.response.token[1]) > last.at

\* the answers of the handlers, against the functions run alone at the clock
\* reading the handler took
C10_Results ==
    /\ last.op = "login" =>
           last.response = login(users_db, last.username, last.password, last.at)
    /\ last.op = "verify" =>
           last.result = get_current_user(last.token, last.at, users_db)

\* C10: no mutable shared state behind authenticate, issue and verify. Under
\* every interleaving of the threads, the answer of a login equals login run
\* alone at the clock reading it took, the answer of a verification equals
\* get_current_user run alone at the clock reading it took, users_db never
\* changes, and no step of a login or a verification writes to the server's
\* stores (no token is kept server-side).
C10_NoSharedState ==
    /\ []C10_Results
    /\ [][/\ users_db' = users_db
           /\ (threads' # threads) => (books_db' = books_db)]_vars

\* a verification answers after the clock moved past its reading, while the
\* other thread is inside a login and a book was added in between
C10_Witness ==
    /\ last.op = "verify"
    /\ last.at < clock
    /\ last.result.status = 200
    /\ \E locals \in BagToSet(threads) : locals.pc = "login"
    /\ Len(books_db) > Len(InitialBooks)

====
